---- MODULE Spec2Model ----
(***************************************************************************)
(* Model of contracts/transmuter/src/moving_average/compressed_division.rs *)
(* : the v2 CompressedDivision (new, update, average and its helpers).     *)
(*                                                                         *)
(* Timestamps and Uint64 are naturals in 0..U64Max.  A Decimal is modelled *)
(* by its atomics (the integer numerator over DECIMAL_FRACTIONAL), in      *)
(* 0..DecimalMax.  Every checked operation returns a result record:        *)
(* [ok |-> TRUE, val |-> v] or [ok |-> FALSE, err |-> e].                  *)
(***************************************************************************)
EXTENDS Integers, Sequences, FiniteSets

\* Width of Uint64 / Timestamp nanos, scaled down from 2^64 - 1.
U64Max == 4
\* 10^18 in cosmwasm_std::Decimal, scaled down to one fractional digit.
DECIMAL_FRACTIONAL == 10
\* Largest Decimal atomics (2^128 - 1 in cosmwasm_std), scaled down.  As in
\* the real types, U64Max * DECIMAL_FRACTIONAL stays below it.
DecimalMax == 100
\* Longest division sequence the caller holds.
MaxDivisions == 2

\* Decimal atomics the caller records (0.3 and 4.0 at one fractional digit).
Values == {3, 40}
Times == 0..U64Max
\* division_size and window_size are Uint64.
Sizes == 0..U64Max

Ok(v) == [ok |-> TRUE, val |-> v]
Err(e) == [ok |-> FALSE, err |-> e]

OverflowError == "OverflowError"
DivideByZero == "CheckedFromRatioError::DivideByZero"
RatioOverflow == "CheckedFromRatioError::Overflow"
NotFound == "StdError::NotFound(division)"
ChangeLimitError == "ChangeLimitError(updated_at must be greater than or equal to started_at)"

(***************************************************************************)
(* cosmwasm_std checked arithmetic, as the source calls it.                *)
(***************************************************************************)
\* A subtraction that stops at zero instead of failing.
Uint64_saturating_sub(a, b) == IF a >= b THEN Ok(a - b) ELSE Ok(0)

Uint64_checked_sub(a, b) == IF a >= b THEN Ok(a - b) ELSE Err(OverflowError)

Uint64_checked_add(a, b) == IF a + b <= U64Max THEN Ok(a + b) ELSE Err(OverflowError)

\* Decimal::checked_from_ratio(n, d): floor(n * 10^18 / d) as atomics.
checked_from_ratio(n, d) ==
    IF d = 0 THEN Err(DivideByZero)
    ELSE IF (n * DECIMAL_FRACTIONAL) \div d > DecimalMax THEN Err(RatioOverflow)
    ELSE Ok((n * DECIMAL_FRACTIONAL) \div d)

\* Decimal::checked_mul: floor(a * b / 10^18) on the atomics.
Decimal_checked_mul(a, b) ==
    IF (a * b) \div DECIMAL_FRACTIONAL > DecimalMax THEN Err(OverflowError)
    ELSE Ok((a * b) \div DECIMAL_FRACTIONAL)

Decimal_checked_add(a, b) == IF a + b <= DecimalMax THEN Ok(a + b) ELSE Err(OverflowError)

\* Decimal::checked_div(a, b) is checked_from_ratio of the two numerators.
Decimal_checked_div(a, b) == checked_from_ratio(a, b)

\* value.checked_mul(Decimal::checked_from_ratio(n, 1u128)?)
mul_by_whole(value, n) ==
    LET r == checked_from_ratio(n, 1)
    IN  IF ~r.ok THEN r ELSE Decimal_checked_mul(value, r.val)

(***************************************************************************)
(* CompressedDivision (start_time, cumsum, n): the sum and the count of    *)
(* the values of a division.                                               *)
(***************************************************************************)
CalculationError == "CalculationError"

\* .map_err(ContractError::calculation_error)
calculation_error(r) == IF r.ok THEN r ELSE Err(CalculationError)

\* Decimal::from_atomics(n, 0): the whole number n as a Decimal.
Decimal_from_atomics(n) ==
    IF n * DECIMAL_FRACTIONAL > DecimalMax THEN Err("DecimalRangeExceeded")
    ELSE Ok(n * DECIMAL_FRACTIONAL)

\* A division that counts the values accumulated after the first.
v1_start_counting_from_zero(start_time, value) ==
    [start_time |-> start_time, cumsum |-> value, n |-> 0]

v1_start(start_time, value) ==
    [start_time |-> start_time, cumsum |-> value, n |-> 1]

v1_accum(self, value) ==
    LET cumsum == calculation_error(Decimal_checked_add(self.cumsum, value))
    IN  IF ~cumsum.ok THEN cumsum
        ELSE LET n == calculation_error(Uint64_checked_add(self.n, 1))
             IN  IF ~n.ok THEN n
                 ELSE Ok([start_time |-> self.start_time, cumsum |-> cumsum.val,
                          n |-> n.val])

v1_elasped_time(self, block_time) ==
    calculation_error(Uint64_checked_sub(block_time, self.start_time))

v1_average(self) ==
    LET n == calculation_error(Decimal_from_atomics(self.n))
    IN  IF ~n.ok THEN n
        ELSE calculation_error(Decimal_checked_div(self.cumsum, n.val))

(***************************************************************************)
(* v2::CompressedDivision                                                  *)
(***************************************************************************)
Division(s, u, l, c) ==
    [started_at |-> s, updated_at |-> u, latest_value |-> l, cumsum |-> c]

\* new without the ensure!: the subtraction reports the bad order instead.
new_without_ensure(started_at, updated_at, value, prev_value) ==
    LET elapsed_time == Uint64_checked_sub(updated_at, started_at)
    IN  IF ~elapsed_time.ok THEN elapsed_time
        ELSE LET cumsum == mul_by_whole(prev_value, elapsed_time.val)
             IN  IF ~cumsum.ok THEN cumsum
                 ELSE Ok(Division(started_at, updated_at, value, cumsum.val))

\* new weighting the first interval by value instead of prev_value.
new_weighting_value(started_at, updated_at, value, prev_value) ==
    IF ~(updated_at >= started_at) THEN Err(ChangeLimitError)
    ELSE LET elapsed_time == Uint64_checked_sub(updated_at, started_at)
         IN  IF ~elapsed_time.ok THEN elapsed_time
             ELSE LET cumsum == mul_by_whole(value, elapsed_time.val)
                  IN  IF ~cumsum.ok THEN cumsum
                      ELSE Ok(Division(started_at, updated_at, value, cumsum.val))

new(started_at, updated_at, value, prev_value) ==
    IF ~(updated_at >= started_at) THEN Err(ChangeLimitError)
    ELSE LET elapsed_time == Uint64_checked_sub(updated_at, started_at)
         IN  IF ~elapsed_time.ok THEN elapsed_time
             ELSE LET cumsum == mul_by_whole(prev_value, elapsed_time.val)
                  IN  IF ~cumsum.ok THEN cumsum
                      ELSE Ok(Division(started_at, updated_at, value, cumsum.val))

\* update folding the new value, not the closed latest_value, into cumsum.
update_folding_new_value(self, updated_at, value) ==
    LET elapsed_time == Uint64_checked_sub(updated_at, self.updated_at)
    IN  IF ~elapsed_time.ok THEN elapsed_time
        ELSE LET w == mul_by_whole(value, elapsed_time.val)
             IN  IF ~w.ok THEN w
                 ELSE LET cumsum == Decimal_checked_add(self.cumsum, w.val)
                      IN  IF ~cumsum.ok THEN cumsum
                          ELSE Ok(Division(self.started_at, updated_at, value, cumsum.val))

\* update opening the division again at the time of the update.
update_restarting(self, updated_at, value) ==
    LET elapsed_time == Uint64_checked_sub(updated_at, self.updated_at)
    IN  IF ~elapsed_time.ok THEN elapsed_time
        ELSE LET w == mul_by_whole(self.latest_value, elapsed_time.val)
             IN  IF ~w.ok THEN w
                 ELSE LET cumsum == Decimal_checked_add(self.cumsum, w.val)
                      IN  IF ~cumsum.ok THEN cumsum
                          ELSE Ok(Division(updated_at, updated_at, value, cumsum.val))

\* update taking an earlier time as no time elapsed.
update_clamping_elapsed(self, updated_at, value) ==
    LET elapsed_time == IF updated_at >= self.updated_at
                        THEN updated_at - self.updated_at ELSE 0
        w == mul_by_whole(self.latest_value, elapsed_time)
    IN  IF ~w.ok THEN w
        ELSE LET cumsum == Decimal_checked_add(self.cumsum, w.val)
             IN  IF ~cumsum.ok THEN cumsum
                 ELSE Ok(Division(self.started_at, updated_at, value, cumsum.val))

update(self, updated_at, value) ==
    LET elapsed_time == Uint64_checked_sub(updated_at, self.updated_at)
    IN  IF ~elapsed_time.ok THEN elapsed_time
        ELSE LET w == mul_by_whole(self.latest_value, elapsed_time.val)
             IN  IF ~w.ok THEN w
                 ELSE LET cumsum == Decimal_checked_add(self.cumsum, w.val)
                      IN  IF ~cumsum.ok THEN cumsum
                          ELSE Ok(Division(self.started_at, updated_at, value, cumsum.val))

\* The open interval never capped at the end of the bucket.
latest_value_elapsed_time_uncapped(self, division_size, block_time) ==
    LET ended_at == Uint64_checked_add(self.started_at, division_size)
    IN  IF ~ended_at.ok THEN ended_at
        ELSE Uint64_checked_sub(block_time, self.updated_at)

latest_value_elapsed_time(self, division_size, block_time) ==
    LET ended_at == Uint64_checked_add(self.started_at, division_size)
    IN  IF ~ended_at.ok THEN ended_at
        ELSE IF block_time > ended_at.val
             THEN Uint64_checked_sub(ended_at.val, self.updated_at)
             ELSE Uint64_checked_sub(block_time, self.updated_at)

\* The latest value weighted by the whole bucket.
weighted_latest_value_whole_bucket(self, division_size, block_time) ==
    LET elapsed_time == latest_value_elapsed_time(self, division_size, block_time)
    IN  IF ~elapsed_time.ok THEN elapsed_time
        ELSE mul_by_whole(self.latest_value, division_size)

\* The latest value counted once, whatever time it stayed open.
weighted_latest_value_unweighted(self, division_size, block_time) ==
    LET elapsed_time == latest_value_elapsed_time(self, division_size, block_time)
    IN  IF ~elapsed_time.ok THEN elapsed_time
        ELSE Ok(self.latest_value)

weighted_latest_value(self, division_size, block_time) ==
    LET elapsed_time == latest_value_elapsed_time(self, division_size, block_time)
    IN  IF ~elapsed_time.ok THEN elapsed_time
        ELSE mul_by_whole(self.latest_value, elapsed_time.val)

\* The closed intervals only: the still-open latest value left out.
cumsum_at_block_time_closed_only(self, division_size, block_time) ==
    LET w == weighted_latest_value(self, division_size, block_time)
    IN  IF ~w.ok THEN w ELSE Ok(self.cumsum)

cumsum_at_block_time(self, division_size, block_time) ==
    LET w == weighted_latest_value(self, division_size, block_time)
    IN  IF ~w.ok THEN w ELSE Decimal_checked_add(self.cumsum, w.val)

Min(a, b) == IF a < b THEN a ELSE b
Max(a, b) == IF a > b THEN a ELSE b

\* The cumsum of the first division kept whole when the window cuts into it.
first_division_cumsum_unscaled(division, window_started_at, current_cumsum_weight, new_cumsum_weight) ==
    Ok(division.cumsum)

\* The rescaling with the two weights exchanged.
first_division_cumsum_inverted(division, window_started_at, current_cumsum_weight, new_cumsum_weight) ==
    IF window_started_at > division.started_at
    THEN IF ~new_cumsum_weight.ok THEN new_cumsum_weight
         ELSE LET w == checked_from_ratio(new_cumsum_weight.val, 1)
         IN  IF ~w.ok THEN w
         ELSE LET division_average_before_latest_update ==
                      Decimal_checked_div(division.cumsum, w.val)
         IN  IF ~division_average_before_latest_update.ok
             THEN division_average_before_latest_update
             ELSE mul_by_whole(division_average_before_latest_update.val,
                               current_cumsum_weight)
    ELSE Ok(division.cumsum)

\* let cumsum = if window_started_at > division_started_at { ... } else { division.cumsum }
\* new_cumsum_weight is the result of remaining_division_size.checked_sub(..).
first_division_cumsum(division, window_started_at, current_cumsum_weight, new_cumsum_weight) ==
    IF window_started_at > division.started_at
    THEN IF ~new_cumsum_weight.ok THEN new_cumsum_weight
         ELSE LET w == checked_from_ratio(current_cumsum_weight, 1)
         IN  IF ~w.ok THEN w
         ELSE LET division_average_before_latest_update ==
                      Decimal_checked_div(division.cumsum, w.val)
         IN  IF ~division_average_before_latest_update.ok
             THEN division_average_before_latest_update
             ELSE mul_by_whole(division_average_before_latest_update.val,
                               new_cumsum_weight.val)
    ELSE Ok(division.cumsum)

\* The Some(division) arm of average: Ok of the cumsum of the returned pair
\* (its other component is division.started_at), or the error.
first_division(division, division_size, window_started_at, block_time) ==
    LET ended == Uint64_checked_add(division.started_at, division_size)
    IN  IF ~ended.ok THEN ended
        ELSE LET rem == Uint64_checked_sub(ended.val, window_started_at)
        IN  IF ~rem.ok THEN rem
        ELSE LET remaining_division_size == Min(rem.val, division_size)
                 lve == latest_value_elapsed_time(division, division_size, block_time)
        IN  IF ~lve.ok THEN lve
        ELSE IF remaining_division_size > lve.val
        THEN LET current_cumsum_weight ==
                     Uint64_checked_sub(division.updated_at, division.started_at)
             IN  IF ~current_cumsum_weight.ok THEN current_cumsum_weight
             ELSE LET cumsum ==
                          first_division_cumsum(
                              division, window_started_at, current_cumsum_weight.val,
                              Uint64_checked_sub(remaining_division_size, lve.val))
             IN  IF ~cumsum.ok THEN cumsum
             ELSE LET wl == weighted_latest_value(division, division_size, block_time)
             IN  IF ~wl.ok THEN wl
                 ELSE Decimal_checked_add(cumsum.val, wl.val)
        ELSE mul_by_whole(division.latest_value, remaining_division_size)

\* for division in divisions { cumsum = cumsum.checked_add(...)? }
RECURSIVE accumulate(_, _, _, _, _)
accumulate(divisions, i, cumsum, division_size, block_time) ==
    IF i > Len(divisions) THEN Ok(cumsum)
    ELSE LET c == cumsum_at_block_time(divisions[i], division_size, block_time)
         IN  IF ~c.ok THEN c
             ELSE LET s == Decimal_checked_add(cumsum, c.val)
                  IN  IF ~s.ok THEN s
                      ELSE accumulate(divisions, i + 1, s.val, division_size, block_time)

\* A window start clamped at time zero instead of failing.
window_started_at_saturating(block_time, window_size) ==
    IF block_time >= window_size THEN Ok(block_time - window_size) ELSE Ok(0)

\* let window_started_at = Uint64::from(block_time.nanos()).checked_sub(window_size)?
window_started_at_of(block_time, window_size) ==
    Uint64_checked_sub(block_time, window_size)

\* An empty sequence averaged as zero.
no_division_as_zero == Ok(0)

\* None => return Err(StdError::not_found("division").into())
no_division == Err(NotFound)

\* The denominator taken as the whole window, not clipped to the first division.
total_elapsed_time_window_only(block_time, window_started_at, first_div_stared_at) ==
    Uint64_checked_sub(block_time, window_started_at)

\* A zero denominator replaced by one, so that the division never fails.
total_elapsed_time_never_zero(block_time, window_started_at, first_div_stared_at) ==
    LET t == Uint64_checked_sub(block_time, Max(window_started_at, first_div_stared_at))
    IN  IF t.ok /\ t.val = 0 THEN Ok(1) ELSE t

\* let started_at = window_started_at.max(first_div_stared_at.nanos().into());
\* let total_elapsed_time = Uint64::from(block_time.nanos()).checked_sub(started_at)?
total_elapsed_time_of(block_time, window_started_at, first_div_stared_at) ==
    Uint64_checked_sub(block_time, Max(window_started_at, first_div_stared_at))

average(divisions, division_size, window_size, block_time) ==
    LET window_started_at == window_started_at_of(block_time, window_size)
    IN  IF ~window_started_at.ok THEN window_started_at
        ELSE IF Len(divisions) = 0 THEN no_division
        ELSE LET first == first_division(divisions[1], division_size,
                                         window_started_at.val, block_time)
        IN  IF ~first.ok THEN first
        ELSE LET cumsum == accumulate(divisions, 2, first.val, division_size, block_time)
        IN  IF ~cumsum.ok THEN cumsum
        ELSE LET total_elapsed_time ==
                     total_elapsed_time_of(block_time, window_started_at.val,
                                           divisions[1].started_at)
        IN  IF ~total_elapsed_time.ok THEN total_elapsed_time
        ELSE LET d == checked_from_ratio(total_elapsed_time.val, 1)
        IN  IF ~d.ok THEN d ELSE Decimal_checked_div(cumsum.val, d.val)

(***************************************************************************)
(* The caller: it holds the division sequence (oldest first), appends a    *)
(* division with new, replaces the newest one by its update, and queries   *)
(* average.  last records the most recent call and what it returned.       *)
(*                                                                         *)
(* average takes its divisions by value and returns a Decimal: a query     *)
(* leaves the sequence as it was.  The calls that follow a query therefore *)
(* start from the sequence the query was made on, and are explored from    *)
(* the state in which the query was issued (Recording): the states reached *)
(* are the same, each query result being examined once.                    *)
(*                                                                         *)
(* recorded is kept by the caller that feeds samples in time order (see    *)
(* Sample below): the step function it has recorded so far.  The other     *)
(* callers keep none.                                                      *)
(*                                                                         *)
(* v1 is the division (start_time, cumsum, n) held by the caller of start  *)
(* and accum, and given the start time and the values that caller has      *)
(* handed to them.                                                         *)
(***************************************************************************)
VARIABLES divisions, last, recorded, v1, given

vars == <<divisions, last, recorded, v1, given>>

NoCall == [op |-> "none"]

Recording == last.op # "average"

\* Nothing recorded yet.
NoSamples == [values |-> {}]

\* No division started yet.
NoDivision == [n |-> 0]

Unrecorded == UNCHANGED <<recorded, v1, given>>

Init ==
    /\ divisions = <<>>
    /\ last = NoCall
    /\ recorded = NoSamples
    /\ v1 = NoDivision
    /\ given = <<>>

\* CompressedDivision::new, pushed on a sequence of fewer than max divisions;
\* the sequence is sorted by started_at (line 151).
NewInto(max) ==
    \E started_at \in Times, updated_at \in Times, value \in Values, prev_value \in Values :
        LET res == new(started_at, updated_at, value, prev_value)
        IN  /\ Recording
            /\ Len(divisions) < max
            /\ Len(divisions) > 0 => started_at >= divisions[Len(divisions)].started_at
            /\ last' = [op |-> "new", started_at |-> started_at, updated_at |-> updated_at,
                        value |-> value, prev_value |-> prev_value, res |-> res]
            /\ divisions' = IF res.ok THEN Append(divisions, res.val) ELSE divisions

New == NewInto(MaxDivisions) /\ Unrecorded

\* The first division of a sequence.
NewFirst == NewInto(1) /\ Unrecorded

\* CompressedDivision::update on the newest division.
UpdateNewest ==
    \E updated_at \in Times, value \in Values :
        /\ Recording
        /\ Len(divisions) > 0
        /\ LET self == divisions[Len(divisions)]
               res == update(self, updated_at, value)
           IN  /\ last' = [op |-> "update", self |-> self, updated_at |-> updated_at,
                           value |-> value, res |-> res]
               /\ divisions' = IF res.ok
                               THEN [divisions EXCEPT ![Len(divisions)] = res.val]
                               ELSE divisions

Update == UpdateNewest /\ Unrecorded

\* CompressedDivision::average over the held sequence.
Average ==
    \E division_size \in Sizes, window_size \in Sizes, block_time \in Times :
        /\ Recording
        /\ last' = [op |-> "average", division_size |-> division_size,
                    window_size |-> window_size, block_time |-> block_time,
                    res |-> average(divisions, division_size, window_size, block_time)]
        /\ UNCHANGED <<divisions, recorded, v1, given>>

Next == New \/ Update \/ Average

Spec == Init /\ [][Next]_vars

\* cumsum_at_block_time of the held division: the step average takes for each
\* division after the first (line 218), on its own.
CumsumAtBlockTime ==
    \E division_size \in Sizes, block_time \in Times :
        /\ Recording
        /\ Len(divisions) > 0
        /\ last' = [op |-> "cumsum_at_block_time", self |-> divisions[Len(divisions)],
                    division_size |-> division_size, block_time |-> block_time,
                    res |-> cumsum_at_block_time(divisions[Len(divisions)],
                                                 division_size, block_time)]
        /\ UNCHANGED <<divisions, recorded, v1, given>>

\* The caller that holds one division: the claims about new, update, the
\* mass of a division and the average of a single division.
NextSingle == NewFirst \/ Update \/ Average \/ CumsumAtBlockTime

SpecSingle == Init /\ [][NextSingle]_vars

(***************************************************************************)
(* The caller that records samples in time order, each in the newest       *)
(* division or in a new one.  recorded is the step function of its         *)
(* samples: the value is current since at, integral is the sum over        *)
(* [since, at] of each value times the time it was the current value,      *)
(* values are the values and prev_values handed to new and update, and     *)
(* seeded tells that every division after the first was constructed with   *)
(* the final value of the one before as its prev_value.                    *)
(***************************************************************************)
\* The step function after a sample at time at: the interval of the current
\* value is closed and value becomes current.
Stepped(r, at, value) ==
    [r EXCEPT !.at = at, !.current = value,
              !.integral = r.integral + r.current * (at - r.at),
              !.values = r.values \cup {value}]

\* A sample that opens a division (CompressedDivision::new), at or after the
\* last sample of the division before.
SampleNew ==
    /\ NewInto(MaxDivisions)
    /\ Len(divisions) > 0 => last'.started_at >= recorded.at
    /\ recorded' =
         IF ~last'.res.ok THEN recorded
         ELSE IF Len(divisions) = 0
         THEN [since |-> last'.started_at, at |-> last'.updated_at,
               current |-> last'.value,
               integral |-> last'.prev_value * (last'.updated_at - last'.started_at),
               seeded |-> TRUE, values |-> {last'.prev_value, last'.value}]
         ELSE [Stepped(recorded, last'.updated_at, last'.value) EXCEPT
                   !.seeded = recorded.seeded /\ last'.prev_value = recorded.current,
                   !.values = @ \cup {last'.prev_value}]
    /\ UNCHANGED <<v1, given>>

\* A sample in the newest division (CompressedDivision::update).
SampleUpdate ==
    /\ UpdateNewest
    /\ recorded' = IF last'.res.ok
                   THEN Stepped(recorded, last'.updated_at, last'.value)
                   ELSE recorded
    /\ UNCHANGED <<v1, given>>

NextRecorded == SampleNew \/ SampleUpdate \/ Average

SpecRecorded == Init /\ [][NextRecorded]_vars

(***************************************************************************)
(* The caller of the division (start_time, cumsum, n): it starts a         *)
(* division, accumulates values into it, and asks its elapsed time and its *)
(* average.                                                                *)
(***************************************************************************)
Start ==
    \E start_time \in Times, value \in Values :
        /\ v1' = v1_start(start_time, value)
        /\ given' = [start_time |-> start_time, values |-> <<value>>]
        /\ last' = [op |-> "start", start_time |-> start_time, value |-> value,
                    res |-> Ok(v1_start(start_time, value))]
        /\ UNCHANGED <<divisions, recorded>>

Accum ==
    \E value \in Values :
        /\ v1 # NoDivision
        /\ LET res == v1_accum(v1, value)
           IN  /\ last' = [op |-> "accum", self |-> v1, value |-> value, res |-> res]
               /\ v1' = IF res.ok THEN res.val ELSE v1
               /\ given' = IF res.ok
                           THEN [given EXCEPT !.values = Append(@, value)]
                           ELSE given
        /\ UNCHANGED <<divisions, recorded>>

ElaspedTime ==
    \E block_time \in Times :
        /\ v1 # NoDivision
        /\ last' = [op |-> "elasped_time", block_time |-> block_time,
                    res |-> v1_elasped_time(v1, block_time)]
        /\ UNCHANGED <<divisions, recorded, v1, given>>

AverageOfValues ==
    /\ v1 # NoDivision
    /\ last' = [op |-> "v1_average", res |-> v1_average(v1)]
    /\ UNCHANGED <<divisions, recorded, v1, given>>

NextV1 == Start \/ Accum \/ ElaspedTime \/ AverageOfValues

SpecV1 == Init /\ [][NextV1]_vars

(***************************************************************************)
(* Claims.  The expected values are written in plain integer arithmetic on *)
(* the atomics, not with the checked operations of the model.              *)
(***************************************************************************)
IsNew == last.op = "new"
IsUpdate == last.op = "update"
IsAverage == last.op = "average"

\* C1: new with updated_at < started_at returns the change-limit error
\* "updated_at must be greater than or equal to started_at", whatever value
\* and prev_value are, and constructs no division.
C1_NewRejectsBadOrder ==
    (IsNew /\ last.updated_at < last.started_at)
        => (last.res = Err(ChangeLimitError) /\ ~last.res.ok)

C1_Witness ==
    /\ IsNew
    /\ last.updated_at < last.started_at
    /\ last.res = Err(ChangeLimitError)

\* C2: new with started_at <= updated_at and a representable product
\* succeeds with started_at and updated_at as given, latest_value = value
\* and cumsum = prev_value * (updated_at - started_at); the cumsum is 0 when
\* started_at = updated_at, whatever prev_value is.
C2_NewResult ==
    (/\ IsNew
     /\ last.started_at <= last.updated_at
     /\ last.prev_value * (last.updated_at - last.started_at) <= DecimalMax)
        => /\ last.res = Ok(Division(last.started_at, last.updated_at, last.value,
                                     last.prev_value * (last.updated_at - last.started_at)))
           /\ (last.started_at = last.updated_at => last.res.val.cumsum = 0)

C2_Witness ==
    /\ IsNew
    /\ last.res.ok
    /\ last.started_at < last.updated_at
    /\ last.prev_value # last.value
    /\ last.res.val.cumsum = last.prev_value * (last.updated_at - last.started_at)

\* C3: update(t, v) on a division d with t >= d.updated_at that does not
\* overflow returns cumsum = d.cumsum + d.latest_value * (t - d.updated_at),
\* latest_value = v, updated_at = t and started_at = d.started_at; when
\* t = d.updated_at the cumsum is unchanged and only latest_value is replaced.
C3_UpdateResult ==
    (/\ IsUpdate
     /\ last.updated_at >= last.self.updated_at
     /\ last.self.cumsum
          + last.self.latest_value * (last.updated_at - last.self.updated_at) <= DecimalMax)
        => /\ last.res = Ok(Division(last.self.started_at, last.updated_at, last.value,
                               last.self.cumsum + last.self.latest_value
                                   * (last.updated_at - last.self.updated_at)))
           /\ (last.updated_at = last.self.updated_at
                 => last.res.val = [last.self EXCEPT !.latest_value = last.value])

C3_Witness ==
    /\ IsUpdate
    /\ last.res.ok
    /\ last.updated_at > last.self.updated_at
    /\ last.self.cumsum > 0
    /\ last.value # last.self.latest_value
    /\ last.res.val.cumsum > last.self.cumsum

\* C4 as claimed: average over an empty sequence fails with the not-found
\* "division" error for every division_size, window_size and block_time.
C4_EmptyAlwaysNotFound ==
    (IsAverage /\ divisions = <<>>) => last.res = Err(NotFound)

\* C4 amended: average over an empty sequence fails with the not-found
\* "division" error for every division_size and every window_size <=
\* block_time (a larger window_size fails first, with the overflow error).
C4_EmptyNotFoundInsideTime ==
    (IsAverage /\ divisions = <<>> /\ last.window_size <= last.block_time)
        => last.res = Err(NotFound)

C4_Witness ==
    /\ IsAverage
    /\ divisions = <<>>
    /\ 0 < last.window_size
    /\ last.window_size < last.block_time
    /\ last.res = Err(NotFound)

\* C5: average fails with the arithmetic overflow error, and returns no
\* value, whenever window_size > block_time, for any division sequence.
C5_WindowBeforeTimeZero ==
    (IsAverage /\ last.window_size > last.block_time)
        => (last.res = Err(OverflowError) /\ ~last.res.ok)

C5_Witness ==
    /\ IsAverage
    /\ last.window_size > last.block_time
    /\ Len(divisions) = MaxDivisions
    /\ last.res = Err(OverflowError)

\* Plain-arithmetic expectations used by the claims about average.
First == divisions[1]
Newest == divisions[Len(divisions)]
WindowStartedAt == last.block_time - last.window_size

\* Time the latest value of d stays open at time t: up to t or the bucket end.
OpenTime(d, division_size, t) == Min(t, d.started_at + division_size) - d.updated_at

\* cumsum + latest_value * open time: the full contribution of a division.
Mass(d, division_size, t) == d.cumsum + d.latest_value * OpenTime(d, division_size, t)

RECURSIVE SumMass(_, _, _, _)
SumMass(divs, i, division_size, t) ==
    IF i > Len(divs) THEN 0
    ELSE Mass(divs[i], division_size, t) + SumMass(divs, i + 1, division_size, t)

\* Every division has started_at <= updated_at <= min(t, started_at + division_size),
\* with the bucket end a Uint64.
WellTimed(divs, division_size, t) ==
    \A i \in 1..Len(divs) :
        /\ divs[i].started_at + division_size <= U64Max
        /\ divs[i].started_at <= divs[i].updated_at
        /\ divs[i].updated_at <= Min(t, divs[i].started_at + division_size)

\* C6: for a non-empty sequence with the window starting at or before the
\* first division (window_started_at = block_time - window_size <=
\* first.started_at), every division with started_at <= updated_at <=
\* min(block_time, started_at + division_size) and block_time > first.started_at,
\* average returns (sum over all divisions of cumsum + latest_value *
\* (min(block_time, started_at + division_size) - updated_at)) /
\* (block_time - first.started_at), no division being rescaled.  The sum is a
\* Decimal and the times are Uint64: the claim is about representable ones.
C6_FullWindowAverage ==
    (/\ IsAverage
     /\ Len(divisions) > 0
     /\ last.window_size <= last.block_time
     /\ WindowStartedAt <= First.started_at
     /\ WellTimed(divisions, last.division_size, last.block_time)
     /\ last.block_time > First.started_at
     /\ SumMass(divisions, 1, last.division_size, last.block_time) <= DecimalMax)
        => last.res = Ok(SumMass(divisions, 1, last.division_size, last.block_time)
                            \div (last.block_time - First.started_at))

\* Two divisions, the first one closed at its bucket end, and a quotient
\* that is not the mass of either division alone.
C6_Witness ==
    /\ IsAverage
    /\ Len(divisions) = 2
    /\ last.window_size <= last.block_time
    /\ WindowStartedAt <= First.started_at
    /\ WellTimed(divisions, last.division_size, last.block_time)
    /\ last.block_time > First.started_at + last.division_size
    /\ Newest.started_at = First.started_at + last.division_size
    /\ First.cumsum > 0
    /\ Newest.cumsum > 0
    /\ last.res.ok
    /\ last.res.val > 0

\* The first division when the window starts inside its span.
Remaining == First.started_at + last.division_size - WindowStartedAt
FirstOpenTime == OpenTime(First, last.division_size, last.block_time)
CutFirst ==
    IF Remaining > FirstOpenTime
    THEN (First.cumsum \div (First.updated_at - First.started_at))
             * (Remaining - FirstOpenTime)
         + First.latest_value * FirstOpenTime
    ELSE First.latest_value * Remaining
CutTotal == CutFirst + SumMass(divisions, 2, last.division_size, last.block_time)

\* C7: when first.started_at < window_started_at <= first.started_at +
\* division_size, with remaining = first.started_at + division_size -
\* window_started_at and lve = min(block_time, first.started_at +
\* division_size) - first.updated_at, the first division contributes
\* (cumsum / (updated_at - started_at)) * (remaining - lve) + latest_value * lve
\* if remaining > lve and latest_value * remaining otherwise; later divisions
\* contribute in full and the denominator is block_time - window_started_at.
\* The quotients are Decimal quotients (defined, so their divisors are not 0)
\* and the total is a representable Decimal.
C7_CutFirstDivision ==
    (/\ IsAverage
     /\ Len(divisions) > 0
     /\ last.window_size <= last.block_time
     /\ First.started_at < WindowStartedAt
     /\ WindowStartedAt <= First.started_at + last.division_size
     /\ WellTimed(divisions, last.division_size, last.block_time)
     /\ Remaining > FirstOpenTime => First.updated_at > First.started_at
     /\ last.window_size > 0
     /\ CutTotal <= DecimalMax)
        => last.res = Ok(CutTotal \div (last.block_time - WindowStartedAt))

\* The rescaling branch with a cumsum that its weight does not divide, and a
\* later division.
C7_Witness ==
    /\ IsAverage
    /\ Len(divisions) = 2
    /\ last.window_size <= last.block_time
    /\ First.started_at < WindowStartedAt
    /\ WindowStartedAt <= First.started_at + last.division_size
    /\ WellTimed(divisions, last.division_size, last.block_time)
    /\ Newest.started_at = First.started_at + last.division_size
    /\ Remaining > FirstOpenTime
    /\ First.updated_at > First.started_at
    /\ First.cumsum % (First.updated_at - First.started_at) # 0
    /\ last.res.ok

\* The other branch: the cumsum of the first division is dropped.
C7_WitnessDropped ==
    /\ IsAverage
    /\ Len(divisions) = 2
    /\ last.window_size <= last.block_time
    /\ First.started_at < WindowStartedAt
    /\ WindowStartedAt <= First.started_at + last.division_size
    /\ WellTimed(divisions, last.division_size, last.block_time)
    /\ Newest.started_at = First.started_at + last.division_size
    /\ Remaining <= FirstOpenTime
    /\ Remaining > 0
    /\ First.cumsum > 0
    /\ last.res.ok

\* C8 as claimed: average over a single division just constructed by new,
\* queried at block_time = updated_at with a window covering the whole bucket
\* (block_time - window_size <= started_at), returns exactly the prev_value
\* the division was constructed with.
C8_AtUpdateReturnsPrevValue ==
    [][(/\ IsNew
        /\ last.res.ok
        /\ divisions = <<last.res.val>>
        /\ last'.op = "average"
        /\ last'.block_time = last.updated_at
        /\ last'.block_time - last'.window_size <= last.started_at)
           => last'.res = Ok(last.prev_value)]_vars

\* C8 amended: the same, provided started_at < updated_at <= started_at +
\* division_size (a Uint64) and window_size <= block_time; with
\* updated_at = started_at the total elapsed time is zero and average fails.
C8_AtUpdateReturnsPrevValueAfterStart ==
    [][(/\ IsNew
        /\ last.res.ok
        /\ divisions = <<last.res.val>>
        /\ last'.op = "average"
        /\ last'.block_time = last.updated_at
        /\ last'.window_size <= last'.block_time
        /\ last'.block_time - last'.window_size <= last.started_at
        /\ last.started_at < last.updated_at
        /\ last.updated_at <= last.started_at + last'.division_size
        /\ last.started_at + last'.division_size <= U64Max)
           => last'.res = Ok(last.prev_value)]_vars

\* A query at updated_at > started_at on a single division whose cumsum is
\* the answer times the elapsed time.
C8_Witness ==
    /\ IsAverage
    /\ Len(divisions) = 1
    /\ last.block_time = First.updated_at
    /\ First.started_at < First.updated_at
    /\ First.updated_at < First.started_at + last.division_size
    /\ 0 < WindowStartedAt
    /\ WindowStartedAt <= First.started_at
    /\ last.res.ok
    /\ last.res.val * (First.updated_at - First.started_at) = First.cumsum
    /\ last.res.val # First.latest_value

Between(x, a, b) == (a <= x /\ x <= b) \/ (b <= x /\ x <= a)

\* C9 as claimed: for a fixed sequence, division_size and window_size, and
\* block times t1 < t2 both >= the updated_at of a division, the result at
\* t2 lies between the result at t1 and the latest_value of that division.
C9_MonotoneInBlockTime ==
    (IsAverage /\ last.res.ok)
        => \A t2 \in Times : \A i \in 1..Len(divisions) :
             (/\ last.block_time < t2
              /\ divisions[i].updated_at <= last.block_time
              /\ average(divisions, last.division_size, last.window_size, t2).ok)
                => Between(average(divisions, last.division_size,
                                   last.window_size, t2).val,
                           last.res.val, divisions[i].latest_value)

\* The premises of the amended C9 for the query of last (at t1) and a later
\* block time t2.
InsideNewestBucket(t2) ==
    /\ Len(divisions) > 0
    /\ last.block_time < t2
    /\ Newest.updated_at <= last.block_time
    /\ t2 <= Newest.started_at + last.division_size
    /\ \A i \in 1..(Len(divisions) - 1) :
           divisions[i].started_at + last.division_size <= last.block_time
    /\ last.window_size <= t2
    /\ t2 - last.window_size <= First.started_at

\* C9 amended: let d be the newest division; for block times t1 < t2 with
\* d.updated_at <= t1 and t2 <= d.started_at + division_size, every earlier
\* bucket ended by t1 (started_at + division_size <= t1) and the window at t2
\* starting at or before the first division (t2 - window_size <=
\* first.started_at), whenever both averages are returned the result at t2
\* lies between the result at t1 and d.latest_value.
C9_MonotoneInsideNewestBucket ==
    (IsAverage /\ last.res.ok)
        => \A t2 \in Times :
             (/\ InsideNewestBucket(t2)
              /\ average(divisions, last.division_size, last.window_size, t2).ok)
                => Between(average(divisions, last.division_size,
                                   last.window_size, t2).val,
                           last.res.val, Newest.latest_value)

\* Two buckets, and a later block time at which the average has moved and
\* has not reached the latest value yet.
C9_Witness ==
    /\ IsAverage
    /\ last.res.ok
    /\ Len(divisions) = 2
    /\ \E t2 \in Times :
         /\ InsideNewestBucket(t2)
         /\ average(divisions, last.division_size, last.window_size, t2).ok
         /\ average(divisions, last.division_size, last.window_size, t2).val
                # last.res.val
         /\ average(divisions, last.division_size, last.window_size, t2).val
                # Newest.latest_value

\* block_time - max(window_started_at, first.started_at) = 0
ZeroElapsed ==
    /\ IsAverage
    /\ Len(divisions) > 0
    /\ last.window_size <= last.block_time
    /\ last.block_time = Max(WindowStartedAt, First.started_at)

\* C10 as claimed: when the total elapsed time is zero average fails with a
\* divide-by-zero error.
C10_ZeroElapsedDividesByZero ==
    ZeroElapsed => last.res = Err(DivideByZero)

\* Every step of average before the final division succeeds.
ReachesFinalDivision ==
    /\ WellTimed(divisions, last.division_size, last.block_time)
    /\ WindowStartedAt <= First.started_at + last.division_size
    /\ IF WindowStartedAt <= First.started_at
       THEN SumMass(divisions, 1, last.division_size, last.block_time) <= DecimalMax
       ELSE /\ Remaining > FirstOpenTime => First.updated_at > First.started_at
            /\ CutTotal <= DecimalMax

\* C10 amended: when the total elapsed time is zero average never returns a
\* value (0 or any other): it fails with a divide-by-zero error whenever the
\* steps before the final division succeed (as for a single division with
\* started_at = updated_at = block_time), and otherwise with the error of
\* the step that failed, an overflow or a divide-by-zero error.
C10_ZeroElapsedNeverReturns ==
    ZeroElapsed
        => /\ ~last.res.ok
           /\ last.res.err \in {DivideByZero, OverflowError}
           /\ (ReachesFinalDivision => last.res = Err(DivideByZero))

\* The single division with started_at = updated_at = block_time.
C10_Witness ==
    /\ ZeroElapsed
    /\ Len(divisions) = 1
    /\ First.started_at = First.updated_at
    /\ First.updated_at = last.block_time
    /\ 0 < last.division_size
    /\ 0 < last.window_size
    /\ last.res = Err(DivideByZero)

(***************************************************************************)
(* Claims about the recorded step function.                                *)
(***************************************************************************)
\* Each division starts where the bucket of the one before ends.
Contiguous(divs, division_size) ==
    \A i \in 1..(Len(divs) - 1) :
        divs[i + 1].started_at = divs[i].started_at + division_size

\* The integral of the recorded step function over [since, t], t >= at.
IntegralAt(t) == recorded.integral + recorded.current * (t - recorded.at)

\* C11: for a sample history recorded as new (seeded with the final value of
\* the bucket before as prev_value) followed by updates, in contiguous
\* buckets of length division_size, with block_time inside the last bucket
\* and block_time - window_size <= first.started_at, average equals the
\* exact time-weighted average of the recorded step function over
\* [first.started_at, block_time]: (sum of each value * the time it was the
\* current value) / (block_time - first.started_at), as a Decimal.  The
\* times are Uint64, the interval is not empty and the sum is a Decimal.
C11_ExactTimeWeightedAverage ==
    (/\ IsAverage
     /\ Len(divisions) > 0
     /\ recorded.seeded
     /\ Contiguous(divisions, last.division_size)
     /\ WellTimed(divisions, last.division_size, last.block_time)
     /\ Newest.started_at <= last.block_time
     /\ last.block_time <= Newest.started_at + last.division_size
     /\ last.window_size <= last.block_time
     /\ WindowStartedAt <= First.started_at
     /\ last.block_time > First.started_at
     /\ IntegralAt(last.block_time) <= DecimalMax)
        => last.res = Ok(IntegralAt(last.block_time)
                            \div (last.block_time - recorded.since))

\* Two buckets, samples in both of them and after the start of each, two
\* values recorded, and a query after the last sample.
C11_Witness ==
    /\ IsAverage
    /\ Len(divisions) = 2
    /\ recorded.seeded
    /\ Contiguous(divisions, last.division_size)
    /\ WellTimed(divisions, last.division_size, last.block_time)
    /\ last.block_time <= Newest.started_at + last.division_size
    /\ last.window_size <= last.block_time
    /\ WindowStartedAt <= First.started_at
    /\ First.started_at < First.updated_at
    /\ First.updated_at < Newest.started_at
    /\ Newest.started_at < Newest.updated_at
    /\ Newest.updated_at < last.block_time
    /\ recorded.values = Values
    /\ First.latest_value # Newest.latest_value
    /\ last.res = Ok(IntegralAt(last.block_time)
                        \div (last.block_time - recorded.since))

RECURSIVE SumOf(_, _)
SumOf(values, i) == IF i > Len(values) THEN 0 ELSE values[i] + SumOf(values, i + 1)

\* C12: after start(t, v0) followed by k successful accum calls with values
\* v1..vk, start_time = t, cumsum = v0 + v1 + ... + vk and n = k + 1; hence
\* n >= 1 in every division reachable through start and accum, and average
\* (cumsum / n) never divides by zero on such a division: it returns the
\* quotient.
C12_SumAndCount ==
    v1 # NoDivision
        => /\ v1.start_time = given.start_time
           /\ v1.cumsum = SumOf(given.values, 1)
           /\ v1.n = (Len(given.values) - 1) + 1
           /\ v1.n >= 1
           /\ last.op = "v1_average" => last.res = Ok(v1.cumsum \div v1.n)

\* The average of a division after several accum calls, of different values.
C12_Witness ==
    /\ last.op = "v1_average"
    /\ Len(given.values) >= 3
    /\ \E i, j \in 1..Len(given.values) : given.values[i] # given.values[j]
    /\ v1.cumsum = SumOf(given.values, 1)
    /\ v1.cumsum % v1.n # 0
    /\ last.res = Ok(v1.cumsum \div v1.n)

\* The division held by the caller of new and update.
Held == divisions[1]

\* C13: every division reachable by a successful new followed by successful
\* update calls has started_at <= updated_at and keeps the started_at it was
\* constructed with; across each successful update, updated_at and cumsum
\* never decrease.
C13_OrderedAndMonotone ==
    /\ [](\A i \in 1..Len(divisions) :
             divisions[i].started_at <= divisions[i].updated_at)
    /\ []((IsNew /\ last.res.ok) => Held.started_at = last.started_at)
    /\ [][(Len(divisions) = 1 /\ Len(divisions') = 1)
            => /\ Held'.started_at = Held.started_at
               /\ Held'.updated_at >= Held.updated_at
               /\ Held'.cumsum >= Held.cumsum]_vars

\* A second update, later than the first, of a division constructed after
\* its start.
C13_Witness ==
    /\ IsUpdate
    /\ last.res.ok
    /\ Held = last.res.val
    /\ last.self.started_at < last.self.updated_at
    /\ last.self.cumsum > 0
    /\ last.self.updated_at < Held.updated_at
    /\ last.self.cumsum < Held.cumsum
    /\ last.self.started_at = Held.started_at

\* C14: update(t, v) with t < self.updated_at (even when t >= self.started_at)
\* returns an overflow error, produces no division with a wrapped or clamped
\* elapsed time, and leaves the receiver division unchanged.
C14_UpdateBeforeUpdatedAt ==
    (IsUpdate /\ last.updated_at < last.self.updated_at)
        => /\ last.res = Err(OverflowError)
           /\ ~last.res.ok
           /\ Newest = last.self

\* An update between started_at and updated_at.
C14_Witness ==
    /\ IsUpdate
    /\ last.self.started_at < last.updated_at
    /\ last.updated_at < last.self.updated_at
    /\ last.self.cumsum > 0
    /\ last.res = Err(OverflowError)
    /\ Newest = last.self

\* C15: average does not skip a first division that lies wholly before the
\* window: if first.started_at + division_size < block_time - window_size it
\* returns an overflow error whatever the later divisions are; if
\* first.started_at + division_size = block_time - window_size the first
\* division contributes exactly zero to the result, which is the sum of the
\* later divisions over block_time - window_started_at = window_size.
C15_StaleFirstDivision ==
    (IsAverage /\ Len(divisions) > 0)
        => /\ First.started_at + last.division_size < WindowStartedAt
                => last.res = Err(OverflowError)
           /\ (First.started_at + last.division_size = WindowStartedAt /\ last.res.ok)
                => last.res.val
                       = SumMass(divisions, 2, last.division_size, last.block_time)
                             \div last.window_size

\* A first division that ended before the window started, followed by one
\* that the window covers.
C15_Witness ==
    /\ IsAverage
    /\ Len(divisions) = 2
    /\ 0 < last.division_size
    /\ First.updated_at <= First.started_at + last.division_size
    /\ First.started_at + last.division_size < WindowStartedAt
    /\ WindowStartedAt <= Newest.started_at
    /\ Newest.started_at <= Newest.updated_at
    /\ Newest.updated_at <= last.block_time
    /\ last.block_time <= Newest.started_at + last.division_size
    /\ last.res = Err(OverflowError)

\* A first division that ends where the window starts: its cumsum and its
\* latest value are left out of the result.
C15_WitnessZero ==
    /\ IsAverage
    /\ Len(divisions) = 2
    /\ 0 < last.division_size
    /\ First.started_at + last.division_size = WindowStartedAt
    /\ Newest.started_at = WindowStartedAt
    /\ First.cumsum > 0
    /\ Newest.cumsum > 0
    /\ last.res.ok
    /\ last.res.val > 0
    /\ last.res.val * last.window_size <= Newest.cumsum
           + Newest.latest_value * (last.block_time - Newest.updated_at)

IsCumsumAtBlockTime == last.op = "cumsum_at_block_time"

\* C16: for a division with started_at <= updated_at and a query time
\* t >= updated_at, cumsum_at_block_time returns cumsum + latest_value *
\* (min(t, started_at + division_size) - updated_at) (the bucket end being a
\* Uint64 and the sum a Decimal); the result is the same for every
\* t >= started_at + division_size; if updated_at > min(t, started_at +
\* division_size) it returns an overflow error instead of a value.
C16_MassAtBlockTime ==
    (IsCumsumAtBlockTime /\ last.self.started_at <= last.self.updated_at)
        => /\ (/\ last.self.updated_at <= last.block_time
               /\ last.self.updated_at <= last.self.started_at + last.division_size
               /\ last.self.started_at + last.division_size <= U64Max
               /\ Mass(last.self, last.division_size, last.block_time) <= DecimalMax)
                 => last.res = Ok(Mass(last.self, last.division_size, last.block_time))
           /\ last.block_time >= last.self.started_at + last.division_size
                 => \A t \in Times :
                        t >= last.self.started_at + last.division_size
                            => cumsum_at_block_time(last.self, last.division_size, t)
                                   = last.res
           /\ last.self.updated_at
                   > Min(last.block_time, last.self.started_at + last.division_size)
                 => last.res = Err(OverflowError)

\* A query after the end of the bucket, of a division left open before it.
C16_Witness ==
    /\ IsCumsumAtBlockTime
    /\ last.self.started_at < last.self.updated_at
    /\ last.self.updated_at < last.self.started_at + last.division_size
    /\ last.self.started_at + last.division_size < last.block_time
    /\ last.self.cumsum > 0
    /\ last.res = Ok(last.self.cumsum + last.self.latest_value
                        * (last.self.started_at + last.division_size
                              - last.self.updated_at))

\* A query before updated_at.
C16_WitnessOverflow ==
    /\ IsCumsumAtBlockTime
    /\ last.self.started_at <= last.block_time
    /\ last.block_time < last.self.updated_at
    /\ last.res = Err(OverflowError)

\* remaining_division_size and latest_value_elapsed_time of the first division
\* in the query of last.
RemainingDivisionSize == Min(Remaining, last.division_size)
FirstElapsed == latest_value_elapsed_time(First, last.division_size, last.block_time)

\* The preconditions of C17, and the first division reaching the comparison
\* of line 172 (the window start and the bucket end are Uint64, the bucket
\* does not end before the window).
ReachesCumsumBranch ==
    /\ IsAverage
    /\ Len(divisions) > 0
    /\ last.division_size > 0
    /\ last.window_size >= last.division_size
    /\ First.started_at <= First.updated_at
    /\ First.updated_at <= First.started_at + last.division_size
    /\ First.updated_at <= last.block_time
    /\ last.window_size <= last.block_time
    /\ First.started_at + last.division_size <= U64Max
    /\ WindowStartedAt <= First.started_at + last.division_size

Rescales ==
    /\ ReachesCumsumBranch
    /\ RemainingDivisionSize > FirstElapsed.val
    /\ WindowStartedAt > First.started_at

Drops ==
    /\ ReachesCumsumBranch
    /\ RemainingDivisionSize <= FirstElapsed.val

\* C17: under division_size > 0, window_size >= division_size,
\* first.started_at <= first.updated_at <= first.started_at + division_size
\* and updated_at <= block_time, the rescaling branch of average is safe:
\* whenever it divides cumsum by (updated_at - started_at) that divisor is
\* > 0 (no divide-by-zero error comes out of average), the new weight
\* (remaining_division_size - latest_value_elapsed_time) is <= the original
\* weight (updated_at - started_at) and the rescaled cumsum is <= the
\* original cumsum; whenever the cumsum is dropped instead (remaining <=
\* latest_value_elapsed_time) it is zero or covers only time before the
\* window start.
C17_RescalingIsSafe ==
    /\ ReachesCumsumBranch => FirstElapsed.ok
    /\ Rescales
         => /\ First.updated_at - First.started_at > 0
            /\ RemainingDivisionSize - FirstElapsed.val
                   <= First.updated_at - First.started_at
            /\ first_division_cumsum(
                   First, WindowStartedAt, First.updated_at - First.started_at,
                   Uint64_checked_sub(RemainingDivisionSize, FirstElapsed.val)).ok
            /\ first_division_cumsum(
                   First, WindowStartedAt, First.updated_at - First.started_at,
                   Uint64_checked_sub(RemainingDivisionSize, FirstElapsed.val)).val
                   <= First.cumsum
            /\ last.res.ok \/ last.res.err = OverflowError
    /\ Drops => (First.cumsum = 0 \/ First.updated_at <= WindowStartedAt)

\* The rescaling branch, with a new weight smaller than the original one and
\* a rescaled cumsum smaller than the cumsum.
C17_Witness ==
    /\ Rescales
    /\ 0 < RemainingDivisionSize - FirstElapsed.val
    /\ RemainingDivisionSize - FirstElapsed.val < First.updated_at - First.started_at
    /\ 0 < FirstElapsed.val
    /\ first_division_cumsum(
           First, WindowStartedAt, First.updated_at - First.started_at,
           Uint64_checked_sub(RemainingDivisionSize, FirstElapsed.val)).val
           < First.cumsum
    /\ last.res.ok

\* The cumsum dropped: all of it lies before the window start.
C17_WitnessDropped ==
    /\ Drops
    /\ First.cumsum > 0
    /\ First.updated_at <= WindowStartedAt
    /\ WindowStartedAt < First.started_at + last.division_size
    /\ last.res.ok

\* The weight average gives to the first division: that of its cumsum
\* (rescaled, whole or dropped) plus that of its latest value.
FirstWeight ==
    IF RemainingDivisionSize > FirstElapsed.val
    THEN (IF WindowStartedAt > First.started_at
          THEN RemainingDivisionSize - FirstElapsed.val
          ELSE First.updated_at - First.started_at) + FirstElapsed.val
    ELSE RemainingDivisionSize

\* The weight of a later division: its closed time plus its open time.
RECURSIVE LaterWeights(_)
LaterWeights(i) ==
    IF i > Len(divisions) THEN 0
    ELSE (divisions[i].updated_at - divisions[i].started_at)
             + latest_value_elapsed_time(divisions[i], last.division_size,
                                         last.block_time).val
             + LaterWeights(i + 1)

Lowest(values) == CHOOSE v \in values : \A w \in values : v <= w
Highest(values) == CHOOSE v \in values : \A w \in values : v >= w

\* Contiguous divisions, every updated_at inside its own bucket, the first
\* division overlapping the window, window_size >= division_size, block_time
\* inside the bucket of the last division and after first.started_at.
InsideContiguousBuckets ==
    /\ IsAverage
    /\ Len(divisions) > 0
    /\ Contiguous(divisions, last.division_size)
    /\ \A i \in 1..Len(divisions) :
           /\ divisions[i].started_at <= divisions[i].updated_at
           /\ divisions[i].updated_at <= divisions[i].started_at + last.division_size
    /\ last.window_size <= last.block_time
    /\ WindowStartedAt <= First.started_at + last.division_size
    /\ last.window_size >= last.division_size
    /\ Newest.started_at <= last.block_time
    /\ last.block_time <= Newest.started_at + last.division_size
    /\ last.block_time > First.started_at

\* C18: for contiguous divisions built by new and update with every
\* updated_at inside its own bucket, the first division overlapping the
\* window, window_size >= division_size, and block_time inside the bucket of
\* the last division and > first.started_at, average fails only by overflow,
\* and when it returns, the weights of all contributions sum exactly to the
\* denominator block_time - max(window_started_at, first.started_at) and the
\* average lies between the minimum and the maximum of all prev_values and
\* values recorded in those divisions.
C18_WeightsAndBounds ==
    InsideContiguousBuckets
        => /\ last.res.ok \/ last.res.err = OverflowError
           /\ last.res.ok
                => /\ FirstWeight + LaterWeights(2)
                         = last.block_time - Max(WindowStartedAt, First.started_at)
                   /\ Lowest(recorded.values) <= last.res.val
                   /\ last.res.val <= Highest(recorded.values)

\* Two buckets with one value recorded throughout, the window cutting the
\* first one after its last update: the average is that value.
C18_Witness ==
    /\ InsideContiguousBuckets
    /\ Len(divisions) = 2
    /\ First.started_at < First.updated_at
    /\ First.updated_at <= WindowStartedAt
    /\ WindowStartedAt < First.started_at + last.division_size
    /\ Newest.started_at < Newest.updated_at
    /\ Newest.updated_at < last.block_time
    /\ recorded.values = {Lowest(Values)}
    /\ last.res = Ok(Lowest(Values))

\* Two values recorded, the rescaling branch taken, and an average strictly
\* between them.
C18_WitnessBetween ==
    /\ InsideContiguousBuckets
    /\ Len(divisions) = 2
    /\ Rescales
    /\ recorded.values = Values
    /\ last.res.ok
    /\ Lowest(Values) < last.res.val
    /\ last.res.val < Highest(Values)

====
